---- MODULE Spec2Model ----
(***************************************************************************)
(* Crypto analysis dashboard: the technical-indicator hooks                *)
(* (useTechnicalAnalysis, useRiskReturnAnalysis), the App component's     *)
(* data-fetching and favorites state machine, and the AI variant's         *)
(* mock-data hook and analysis panel (index.tsx).                          *)
(*                                                                         *)
(* JavaScript numbers are modelled as exact rationals <<n, d>> in lowest   *)
(* terms with d > 0, extended with the IEEE special values                 *)
(* <<1, 0>> (Infinity), <<-1, 0>> (-Infinity) and <<0, 0>> (NaN).          *)
(* Closing prices are integer valued, for which the sums the code forms    *)
(* are exact in double precision as well.                                  *)
(* JavaScript null is the empty tuple.                                     *)
(***************************************************************************)
EXTENDS Integers, Sequences, FiniteSets, TLC

VARIABLES
  \* --- the indicator hooks, run on one input ---
  prices,          \* the [timestamp, value] series handed to useTechnicalAnalysis
  absent,          \* TRUE when the prices argument is null/undefined
  snapshot,        \* the CryptoStats[] handed to useRiskReturnAnalysis
  pc,              \* the position of the running hook; "input" before any call
  ret,             \* who called the running calculateSMA/calculateRSI
  window,          \* the period argument of the running calculateSMA/calculateRSI
  i,               \* the loop index of the running calculateSMA/calculateRSI
  sma,             \* calculateSMA's array sma
  gains,           \* calculateRSI's accumulator gains
  losses,          \* calculateRSI's accumulator losses
  rsi,             \* calculateRSI's array rsi
  emitted,         \* per point of rsi: the index i and the accumulators it was computed from
  out              \* the hook's locals sma20, sma50, rsi, support, resistance, then its result

techVars == <<prices, absent, snapshot, pc, ret, window, i, sma, gains, losses, rsi, emitted, out>>

VARIABLES
  \* --- the App component of the live-data dashboard ---
  mounted,         \* TRUE once the mount effects have run
  cryptoList,      \* useState<Crypto[]>: the asset catalog (ids)
  marketData,      \* useState<CryptoStats[]>: the market snapshot
  selectedCrypto,  \* useState('bitcoin')
  period,          \* useState('365')
  historicalData,  \* useState<HistoricalData | null>: tagged by the request it answers
  loading,         \* useState(true)
  error,           \* useState<string | null>
  favorites,       \* useState<string[]>
  localStorage,    \* the item stored under 'cryptoFavorites'
  coinsFetch,      \* the coins/list request: "idle", "pending", "ok" or "failed"
  marketFetch,     \* the coins/markets request: "idle", "pending", "ok" or "failed"
  chartInflight,   \* per (asset, period): the market_chart requests in flight
  lastChartOk,     \* history: the request of the last market_chart response that succeeded
  favoritesSetBy   \* history: the code that last called setFavorites

appVars == <<mounted, cryptoList, marketData, selectedCrypto, period, historicalData,
             loading, error, favorites, localStorage, coinsFetch, marketFetch,
             chartInflight, lastChartOk, favoritesSetBy>>

VARIABLES
  \* --- the AI variant (index.tsx): useCryptoData, App and RiskReturnAnalyzer ---
  aiMounted,       \* TRUE once the mount effect of useCryptoData has run
  timer,           \* loadMockData's setTimeout: "idle", "pending" or "fired"
  cryptos,         \* useCryptoData: useState<CryptoData[]>([]) (ids)
  hookLoading,     \* useCryptoData: loading, useState(true)
  hookError,       \* useCryptoData: error, useState<string | null>(null)
  aiSelected,      \* App: selectedCrypto, useState<CryptoData | null>(null)
  analysis,        \* RiskReturnAnalyzer: useState<RiskReturnAnalysis | null>(null)
  panelLoading,    \* RiskReturnAnalyzer: loading, useState(false)
  panelError,      \* RiskReturnAnalyzer: error, useState<string | null>(null)
  requests         \* per asset: the generateContent requests in flight

aiVars == <<aiMounted, timer, cryptos, hookLoading, hookError, aiSelected, analysis,
            panelLoading, panelError, requests>>

vars == <<techVars, appVars, aiVars>>

-----------------------------------------------------------------------------
(* Bounds of the model *)

\* longest exhaustively enumerated price series
MaxLen == 5
\* closing values range over 1..MaxPrice
MaxPrice == 3
\* calculateSMA / calculateRSI are also applied with every period in 1..MaxWindow
MaxWindow == 3
\* longest structured (flat with one outlier, or ramp) price series
MaxLong == 92
\* most assets in a market snapshot
MaxAssets == 2
\* assets in the catalog the user selects from
MaxCatalog == 2
\* most market_chart requests in flight at once
MaxInflight == 2

\* number of assets of MOCK_DATA the AI variant loads
MaxMock == 4

(* Program constants *)
SmaShort == 20
SmaLong == 50
RsiPeriod == 14
RecentWindow == 90
DaysPerYear == 365
RiskDays == 30

-----------------------------------------------------------------------------
(* JavaScript values *)

Null == <<>>
NaN == <<0, 0>>
Infinity == <<1, 0>>

Abs(n) == IF n < 0 THEN -n ELSE n
Sign(n) == IF n < 0 THEN -1 ELSE IF n > 0 THEN 1 ELSE 0

RECURSIVE GCD(_, _)
GCD(a, b) == IF b = 0 THEN a ELSE GCD(b, a % b)

\* the number n/d
Norm(n, d) ==
  IF d = 0 THEN <<Sign(n), 0>>
  ELSE LET g == GCD(Abs(n), Abs(d))
           s == IF d < 0 THEN -1 ELSE 1
       IN <<(s * n) \div g, (s * d) \div g>>

Num(n) == <<n, 1>>
IsNaN(a) == a = NaN
IsFinite(a) == a[2] # 0
IsZero(a) == a[2] # 0 /\ a[1] = 0

NumNeg(a) == <<-a[1], a[2]>>
NumAbs(a) == <<Abs(a[1]), a[2]>>

\* a + b
NumAdd(a, b) ==
  IF IsNaN(a) \/ IsNaN(b) THEN NaN
  ELSE IF ~IsFinite(a) /\ ~IsFinite(b) THEN (IF a = b THEN a ELSE NaN)
  ELSE IF ~IsFinite(a) THEN a
  ELSE IF ~IsFinite(b) THEN b
  ELSE Norm(a[1] * b[2] + b[1] * a[2], a[2] * b[2])

\* a - b
NumSub(a, b) == NumAdd(a, NumNeg(b))

\* a / b
NumDiv(a, b) ==
  IF IsNaN(a) \/ IsNaN(b) THEN NaN
  ELSE IF ~IsFinite(a) /\ ~IsFinite(b) THEN NaN
  ELSE IF ~IsFinite(a) THEN <<a[1] * (IF b[1] < 0 THEN -1 ELSE 1), 0>>
  ELSE IF ~IsFinite(b) THEN Num(0)
  ELSE IF b[1] = 0 THEN <<Sign(a[1]), 0>>
  ELSE Norm(a[1] * b[2], a[2] * b[1])

\* a <= b on finite numbers
NumLeq(a, b) == a[1] * b[2] <= b[1] * a[2]

\* a || b: a unless a is falsy (0 or NaN)
OrElse(a, b) == IF IsNaN(a) \/ IsZero(a) THEN b ELSE a

\* s[i] with the source's 0-based index
At(s, j) == s[j + 1]

\* Array.prototype.slice(from, to) with 0-based from (inclusive) and to (exclusive)
Slice(s, from, to) == [k \in 1..(to - from) |-> s[from + k]]

-----------------------------------------------------------------------------
(* useTechnicalAnalysis: the pieces of calculateSMA and calculateRSI *)

\* prices.map(p => p[1])
ClosingPrices(ps) == [k \in 1..Len(ps) |-> ps[k][2]]

\* reduce((acc, val) => acc + val, 0) over s[lo..hi]
RECURSIVE ReduceSum(_, _, _)
ReduceSum(s, lo, hi) ==
  IF lo > hi THEN 0
  ELSE IF lo = hi THEN 0 + s[lo]
  ELSE LET mid == (lo + hi) \div 2
       IN ReduceSum(s, lo, mid) + ReduceSum(s, mid + 1, hi)

\* a loop that starts one index late
SmaStartLate(per) == per

\* the loop's first index
SmaStart(per) == per - 1

\* data.slice(i - period + 1, i + 1)
SmaWindow(data, j, per) == Slice(data, j - per + 1, j + 1)

\* the timestamp of the first sample instead of the window's last
PointTimeFirst(ps, j) == At(ps, 0)[1]

\* prices[i][0]
PointTime(ps, j) == At(ps, j)[1]

\* { x: prices[i][0], y: sum / period }
SmaPoint(ps, data, j, per) ==
  LET w == SmaWindow(data, j, per)
      sum == ReduceSum(w, 1, Len(w))
  IN [x |-> PointTime(ps, j), y |-> NumDiv(Num(sum), Num(per))]

\* the leaving delta with its operands swapped
PrevChangeReversed(data, j, per) == At(data, j - per) - At(data, j - per + 1)

\* the delta leaving the window: data[i - period + 1] - data[i - period]
PrevChange(data, j, per) == At(data, j - per + 1) - At(data, j - per)

\* the divisor without the zero guard
LossDivisorUnguarded(avgLoss) == avgLoss

\* avgLoss || 1
LossDivisor(avgLoss) == OrElse(avgLoss, Num(1))

\* the textbook convention: 100 whenever the window holds no loss
RsiValueNoLossHundred(g, l, per) ==
  IF l = 0 THEN Num(100)
  ELSE NumSub(Num(100), NumDiv(Num(100), NumAdd(Num(1), NumDiv(Num(g), Num(l)))))

\* the value emitted from the accumulators
RsiValue(g, l, per) ==
  LET avgGain == NumDiv(Num(g), Num(per))
      avgLoss == NumDiv(Num(l), Num(per))
      rs == NumDiv(avgGain, LossDivisor(avgLoss))
  IN NumSub(Num(100), NumDiv(Num(100), NumAdd(Num(1), rs)))

\* emission starting one index late
RsiEmitsLate(j, per) == j > per

\* i >= period
RsiEmits(j, per) == j >= per

\* the whole series instead of its last 90 samples
RecentPricesAll(data) == data

\* closingPrices.slice(-90)
RecentPrices(data) ==
  Slice(data, IF Len(data) > RecentWindow THEN Len(data) - RecentWindow ELSE 0, Len(data))

NumMin(a, b) ==
  IF a = Infinity THEN b ELSE IF b = Infinity THEN a ELSE IF NumLeq(a, b) THEN a ELSE b
NumMax(a, b) ==
  IF a = NumNeg(Infinity) THEN b ELSE IF b = NumNeg(Infinity) THEN a
  ELSE IF NumLeq(a, b) THEN b ELSE a

\* Math.min(...xs) over xs[lo..hi]: Infinity for no arguments
RECURSIVE MathMin(_, _, _)
MathMin(xs, lo, hi) ==
  IF lo > hi THEN Infinity
  ELSE IF lo = hi THEN Num(xs[lo])
  ELSE LET mid == (lo + hi) \div 2
       IN NumMin(MathMin(xs, lo, mid), MathMin(xs, mid + 1, hi))

\* Math.max(...xs) over xs[lo..hi]: -Infinity for no arguments
RECURSIVE MathMax(_, _, _)
MathMax(xs, lo, hi) ==
  IF lo > hi THEN NumNeg(Infinity)
  ELSE IF lo = hi THEN Num(xs[lo])
  ELSE LET mid == (lo + hi) \div 2
       IN NumMax(MathMax(xs, lo, mid), MathMax(xs, mid + 1, hi))

\* the guard without its length test
NoPricesAbsentOnly(isAbsent, ps) == isAbsent

\* if (!prices || prices.length === 0)
NoPrices(isAbsent, ps) == isAbsent \/ Len(ps) = 0

\* { sma20: [], sma50: [], rsi: [], support: null, resistance: null }
EmptyAnalysis ==
  [sma20 |-> <<>>, sma50 |-> <<>>, rsi |-> <<>>, support |-> Null, resistance |-> Null]

-----------------------------------------------------------------------------
(* useRiskReturnAnalysis *)

\* the snapshot field the projector reads
ReturnField == "price_change_percentage_24h_in_currency"

\* Number(coin[key]): NaN for a field the object does not carry
FieldNum(coin, key) == IF key \in DOMAIN coin THEN Num(coin[key]) ELSE NaN

\* coin[...] / 100 || 0
DailyReturn(coin) == OrElse(NumDiv(FieldNum(coin, ReturnField), Num(100)), Num(0))

\* Math.abs(dailyReturn) * Math.sqrt(365), kept as the coefficient of sqrt(365)
Volatility(dailyReturn) == [coef |-> NumAbs(dailyReturn), sqrtOf |-> DaysPerYear]

\* (1 + dailyReturn)**365 - 1, kept as base and exponent of the power
AnnualReturn(dailyReturn) ==
  [base |-> NumAdd(Num(1), dailyReturn), exp |-> DaysPerYear, minus |-> 1]

RiskPoint(coin) ==
  LET dailyReturn == DailyReturn(coin)
  IN [x |-> Volatility(dailyReturn), y |-> AnnualReturn(dailyReturn),
      name |-> coin.name, image |-> coin.image]

useRiskReturnAnalysis(md, days) ==
  IF Len(md) = 0 THEN <<>> ELSE [k \in 1..Len(md) |-> RiskPoint(md[k])]

-----------------------------------------------------------------------------
(* Inputs *)

\* the timestamp of the sample at 0-based index i (one per day, ascending)
Timestamp(j) == 19000 + j

WithTime(data) == [k \in 1..Len(data) |-> <<Timestamp(k - 1), data[k]>>]

\* every series of at most MaxLen closing values
ShortSeries == UNION {[1..n -> 1..MaxPrice] : n \in 0..MaxLen}

\* a flat series with one outlier, and the strictly increasing ramp
Outlier(n, p, v) == [k \in 1..n |-> IF k = p THEN v ELSE 2]
Ramp(n) == [k \in 1..n |-> k]
LongLens == (MaxLong - 2)..MaxLong
LongSeries ==
  {Outlier(n, p, v) : n \in LongLens, p \in 1..MaxLong, v \in {1, MaxPrice}}
    \cup {Ramp(n) : n \in LongLens}

\* the series of the spec's support/resistance example
ExampleSeries == <<5, 3, 8, 1, 9>>

PriceInputs == {WithTime(d) : d \in ShortSeries \cup LongSeries \cup {ExampleSeries}}

\* the periods calculateSMA and calculateRSI are applied with on their own
Periods == 1..MaxWindow

\* a CryptoStats object of the markets endpoint; change = Null for an asset whose
\* 24-hour change the provider does not report
AssetIds == <<"bitcoin", "ethereum", "solana">>
CryptoStats(k, change) ==
  LET base == [id |-> AssetIds[k], name |-> AssetIds[k], symbol |-> AssetIds[k],
               image |-> AssetIds[k], current_price |-> 100 * k,
               market_cap |-> 1000 * k, total_volume |-> 10 * k]
  IN IF change = Null THEN base
     ELSE [f \in DOMAIN base \cup {"price_change_percentage_24h"} |->
             IF f = "price_change_percentage_24h" THEN change[1] ELSE base[f]]

Changes == {Null, <<-50>>, <<0>>, <<10>>}
Snapshots ==
  UNION {{[k \in 1..n |-> CryptoStats(k, c[k])] : c \in [1..n -> Changes]} : n \in 0..MaxAssets}

-----------------------------------------------------------------------------
\* no hook has run
HookIdle ==
  /\ pc = "input"
  /\ ret = "none"
  /\ window = 0
  /\ i = 0
  /\ sma = <<>>
  /\ gains = 0
  /\ losses = 0
  /\ rsi = <<>>
  /\ emitted = <<>>
  /\ out = Null

-----------------------------------------------------------------------------
(* The App component: state, effects and handlers *)

\* the assets of the catalog and the periods of the period selector the model
\* lets the user choose among (the selector offers 1, 7, 30, 90, 365 and max)
Catalog == {AssetIds[k] : k \in 1..MaxCatalog}
PeriodOptions == {"365", "7"}

\* useState<string | null>(null), useState<HistoricalData | null>(null)
NoError == "<null>"
NoData == [crypto |-> "<null>", period |-> "<null>"]

\* err.message of a failed request
CatalogError == "catalog request failed"
ChartError == "chart request failed"

\* the (asset, period) a market_chart request is issued for; its response's data
\* is tagged with it
ChartKeys == [crypto : Catalog, period : PeriodOptions]

\* what coins/list and coins/markets return
CoinsList == Catalog
MarketSnapshot == [k \in 1..MaxCatalog |-> CryptoStats(k, <<10 * k>>)]

\* JSON text is a sequence of tokens: "[", "]", "," and quoted strings.
\* localStorage.getItem('cryptoFavorites') is null when there is no item.
NoItem == <<>>
\* the JSON text of a string
Quote(id) == "\"" \o id \o "\""
\* the string a quoted token denotes
Unquote(token) == CHOOSE id \in {AssetIds[k] : k \in 1..Len(AssetIds)} : Quote(id) = token
\* the JSON text of an array, from the texts of its elements
JsonArray(texts) ==
  [k \in 1..(IF Len(texts) = 0 THEN 2 ELSE 2 * Len(texts) + 1) |->
     IF k = 1 THEN "["
     ELSE IF k % 2 = 0 /\ k \div 2 <= Len(texts) THEN texts[k \div 2]
     ELSE IF k = 2 * Len(texts) + 1 \/ Len(texts) = 0 THEN "]"
     ELSE ","]
\* writing the list back to front
StringifyReversed(list) ==
  JsonArray([k \in 1..Len(list) |-> Quote(list[Len(list) + 1 - k])])
\* JSON.stringify(list) of a string[]
Stringify(list) == JsonArray([k \in 1..Len(list) |-> Quote(list[k])])
\* JSON.parse(text) of the text of a string[]: the elements between the brackets
JsonParse(text) == [k \in 1..((Len(text) - 1) \div 2) |-> Unquote(text[2 * k])]
\* JSON.parse(localStorage.getItem('cryptoFavorites') || '[]')
ParseStored(item) == JsonParse(IF item = NoItem THEN <<"[", "]">> ELSE item)

\* favorites.includes(id)
Includes(list, id) == \E k \in 1..Len(list) : list[k] = id
\* favorites.filter(id => id !== idToRemove)
Without(list, idToRemove) == SelectSeq(list, LAMBDA id : id # idToRemove)
\* a toggle that adds without looking
ToggleAlwaysAdds(list, selected) == Append(list, selected)
\* newFavorites of handleToggleFavorite
ToggleFavorite(list, selected) ==
  IF Includes(list, selected) THEN Without(list, selected) ELSE Append(list, selected)

\* the lists of favorites a previous session can have stored: no identifier twice
NoDuplicates(list) == \A a, b \in 1..Len(list) : list[a] = list[b] => a = b
StoredLists ==
  {list \in UNION {[1..n -> Catalog] : n \in 0..MaxCatalog} : NoDuplicates(list)}

InflightCount == LET keys == ChartKeys
                     RECURSIVE Sum(_)
                     Sum(S) == IF S = {} THEN 0
                               ELSE LET k == CHOOSE k \in S : TRUE
                                    IN chartInflight[k] + Sum(S \ {k})
                 IN Sum(keys)

\* --- the AI variant ---

\* the ids of MOCK_DATA, in its order
MockIds == <<"bitcoin", "ethereum", "solana", "cardano", "ripple", "dogecoin">>
MOCK_DATA == [k \in 1..MaxMock |-> MockIds[k]]
MockAssets == {MOCK_DATA[k] : k \in 1..Len(MOCK_DATA)}

\* selectedCrypto = null, analysis = null
NoCrypto == "<null>"
NoAnalysis == [asset |-> "<null>"]

\* the categories the response schema asks for
Levels == {"Baixo", "Medio", "Alto"}

\* what generateContent can come back with: a JSON text with the schema's
\* fields, a text that JSON.parse rejects, or a rejected promise
Responses ==
  [kind : {"json"}, nivelDeRisco : Levels, potencialDeRetorno : Levels]
    \cup {[kind |-> "malformed"], [kind |-> "rejected"]}

\* the messages of the two catch blocks
ServiceError == "Nao foi possivel se comunicar com o servico de IA."
AnalyzeError == "Falha ao gerar analise. Tente novamente."

\* a service that hands a failure on as a result
analyzeReturnsFailure(crypto, response) ==
  [ok |-> TRUE,
   value |-> [asset |-> crypto, nivelDeRisco |-> "", potencialDeRetorno |-> ""]]

\* analyzeCryptoRiskReturn(crypto), given what generateContent comes back with:
\* the parsed object (it answers the prompt written for crypto), or the Error
\* thrown by the catch block
analyzeCryptoRiskReturn(crypto, response) ==
  IF response.kind = "json"
  THEN [ok |-> TRUE,
        value |-> [asset |-> crypto, nivelDeRisco |-> response.nivelDeRisco,
                   potencialDeRetorno |-> response.potencialDeRetorno]]
  ELSE [ok |-> FALSE, message |-> ServiceError]

\* a button that is never disabled
ButtonAlwaysEnabled(isLoading) == FALSE

\* <button onClick={handleAnalyze} disabled={loading}>
ButtonDisabled(isLoading) == isLoading

\* the condition under which App renders Dashboard and RiskReturnAnalyzer
PanelShown == ~hookLoading /\ hookError = NoError /\ Len(cryptos) > 0

RequestCount ==
  LET RECURSIVE Sum(_)
      Sum(S) == IF S = {} THEN 0
                ELSE LET a == CHOOSE a \in S : TRUE IN requests[a] + Sum(S \ {a})
  IN Sum(MockAssets)

\* the state the useState calls of index.tsx construct
AiConstructed ==
  /\ aiMounted = FALSE
  /\ timer = "idle"
  /\ cryptos = <<>>
  /\ hookLoading = TRUE
  /\ hookError = NoError
  /\ aiSelected = NoCrypto
  /\ analysis = NoAnalysis
  /\ panelLoading = FALSE
  /\ panelError = NoError
  /\ requests = [a \in MockAssets |-> 0]

\* the state the useState calls construct, before any effect has run
Constructed ==
  /\ mounted = FALSE
  /\ cryptoList = {}
  /\ marketData = <<>>
  /\ selectedCrypto = "bitcoin"
  /\ period = "365"
  /\ historicalData = NoData
  /\ loading = TRUE
  /\ error = NoError
  /\ favorites = <<>>
  /\ coinsFetch = "idle"
  /\ marketFetch = "idle"
  /\ chartInflight = [k \in ChartKeys |-> 0]
  /\ lastChartOk = NoData
  /\ favoritesSetBy = "useState"

AppInit ==
  /\ Constructed
  /\ localStorage \in {NoItem} \cup {Stringify(list) : list \in StoredLists}
  /\ prices = <<>> /\ absent = FALSE /\ snapshot = <<>>
  /\ HookIdle
  /\ AiConstructed

\* a catch block that swallows the failure
CatchSilently(message) == NoError

\* catch (err) { setError(err.message) }
Catch(message) == message

\* a handler that drops the response of a superseded request
OnChartDataTagged(key) ==
  IF key = [crypto |-> selectedCrypto, period |-> period] THEN key ELSE historicalData

\* setHistoricalData(data) of a market_chart response that succeeded
OnChartData(key) == key

\* fetchChartData up to its await: setLoading(true); setError(null); the request
IssueChartFetch(crypto, days) ==
  /\ loading' = TRUE
  /\ error' = NoError
  /\ chartInflight' = [chartInflight EXCEPT ![[crypto |-> crypto, period |-> days]] = @ + 1]

\* The effects of the first render: the favorites are read from localStorage,
\* fetchInitialData runs up to its await, fetchChartData runs up to its await.
Mount ==
  /\ ~mounted
  /\ mounted' = TRUE
  /\ favorites' = ParseStored(localStorage)
  /\ favoritesSetBy' = "mount"
  /\ coinsFetch' = "pending"
  /\ marketFetch' = "pending"
  /\ IssueChartFetch(selectedCrypto, period)
  /\ UNCHANGED <<cryptoList, marketData, selectedCrypto, period, historicalData,
                 localStorage, lastChartOk>>
  /\ UNCHANGED <<techVars, aiVars>>

\* The coins/list response arrives. Promise.all rejects with the first failure
\* and resolves once both requests have succeeded.
CoinsArrive(ok) ==
  /\ coinsFetch = "pending"
  /\ coinsFetch' = IF ok THEN "ok" ELSE "failed"
  /\ IF marketFetch = "failed" THEN UNCHANGED <<cryptoList, marketData, error>>
     ELSE IF ~ok THEN error' = Catch(CatalogError) /\ UNCHANGED <<cryptoList, marketData>>
     ELSE IF marketFetch = "ok"
          THEN cryptoList' = CoinsList /\ marketData' = MarketSnapshot /\ UNCHANGED error
          ELSE UNCHANGED <<cryptoList, marketData, error>>
  /\ UNCHANGED <<mounted, selectedCrypto, period, historicalData, loading, favorites,
                 localStorage, marketFetch, chartInflight, lastChartOk, favoritesSetBy>>
  /\ UNCHANGED <<techVars, aiVars>>

\* The coins/markets response arrives.
MarketArrive(ok) ==
  /\ marketFetch = "pending"
  /\ marketFetch' = IF ok THEN "ok" ELSE "failed"
  /\ IF coinsFetch = "failed" THEN UNCHANGED <<cryptoList, marketData, error>>
     ELSE IF ~ok THEN error' = Catch(CatalogError) /\ UNCHANGED <<cryptoList, marketData>>
     ELSE IF coinsFetch = "ok"
          THEN cryptoList' = CoinsList /\ marketData' = MarketSnapshot /\ UNCHANGED error
          ELSE UNCHANGED <<cryptoList, marketData, error>>
  /\ UNCHANGED <<mounted, selectedCrypto, period, historicalData, loading, favorites,
                 localStorage, coinsFetch, chartInflight, lastChartOk, favoritesSetBy>>
  /\ UNCHANGED <<techVars, aiVars>>

\* onCryptoChange / onSelect: setSelectedCrypto(crypto), then the effect on
\* [selectedCrypto, period] runs fetchChartData up to its await
SelectCrypto(crypto) ==
  /\ mounted
  /\ crypto \in cryptoList
  /\ crypto # selectedCrypto
  /\ InflightCount < MaxInflight
  /\ selectedCrypto' = crypto
  /\ IssueChartFetch(crypto, period)
  /\ UNCHANGED <<mounted, cryptoList, marketData, period, historicalData, favorites,
                 localStorage, coinsFetch, marketFetch, lastChartOk, favoritesSetBy>>
  /\ UNCHANGED <<techVars, aiVars>>

\* onPeriodChange: setPeriod(days), then the effect runs fetchChartData up to its await
SelectPeriod(days) ==
  /\ mounted
  /\ days # period
  /\ InflightCount < MaxInflight
  /\ period' = days
  /\ IssueChartFetch(selectedCrypto, days)
  /\ UNCHANGED <<mounted, cryptoList, marketData, selectedCrypto, historicalData, favorites,
                 localStorage, coinsFetch, marketFetch, lastChartOk, favoritesSetBy>>
  /\ UNCHANGED <<techVars, aiVars>>

\* A market_chart response arrives: fetchChartData from its await on.
ChartArrive(key, ok) ==
  /\ chartInflight[key] > 0
  /\ chartInflight' = [chartInflight EXCEPT ![key] = @ - 1]
  /\ IF ok
     THEN /\ historicalData' = OnChartData(key)
          /\ lastChartOk' = key
          /\ UNCHANGED error
     ELSE /\ error' = Catch(ChartError)
          /\ UNCHANGED <<historicalData, lastChartOk>>
  /\ loading' = FALSE
  /\ UNCHANGED <<mounted, cryptoList, marketData, selectedCrypto, period, favorites,
                 localStorage, coinsFetch, marketFetch, favoritesSetBy>>
  /\ UNCHANGED <<techVars, aiVars>>

\* handleToggleFavorite
handleToggleFavorite ==
  /\ mounted
  /\ LET newFavorites == ToggleFavorite(favorites, selectedCrypto)
     IN /\ favorites' = newFavorites
        /\ localStorage' = Stringify(newFavorites)
  /\ favoritesSetBy' = "handleToggleFavorite"
  /\ UNCHANGED <<mounted, cryptoList, marketData, selectedCrypto, period, historicalData,
                 loading, error, coinsFetch, marketFetch, chartInflight, lastChartOk>>
  /\ UNCHANGED <<techVars, aiVars>>

\* onRemove of a listed favorite (the list shows the favorites found in cryptoList)
onRemove(idToRemove) ==
  /\ mounted
  /\ idToRemove \in cryptoList
  /\ Includes(favorites, idToRemove)
  /\ LET newFavorites == Without(favorites, idToRemove)
     IN /\ favorites' = newFavorites
        /\ localStorage' = Stringify(newFavorites)
  /\ favoritesSetBy' = "onRemove"
  /\ UNCHANGED <<mounted, cryptoList, marketData, selectedCrypto, period, historicalData,
                 loading, error, coinsFetch, marketFetch, chartInflight, lastChartOk>>
  /\ UNCHANGED <<techVars, aiVars>>

AppNext ==
  \/ Mount
  \/ \E ok \in BOOLEAN : CoinsArrive(ok)
  \/ \E ok \in BOOLEAN : MarketArrive(ok)
  \/ \E crypto \in Catalog : SelectCrypto(crypto)
  \/ \E days \in PeriodOptions : SelectPeriod(days)
  \/ \E key \in ChartKeys, ok \in BOOLEAN : ChartArrive(key, ok)
  \/ handleToggleFavorite
  \/ \E id \in Catalog : onRemove(id)

AppSpec == AppInit /\ [][AppNext]_vars

\* The effects of the first render run, and every request the browser has sent
\* settles: fetch resolves or rejects.
AppFairSpec ==
  /\ AppSpec
  /\ WF_vars(Mount)
  /\ WF_vars(\E ok \in BOOLEAN : CoinsArrive(ok))
  /\ WF_vars(\E ok \in BOOLEAN : MarketArrive(ok))
  /\ WF_vars(\E key \in ChartKeys, ok \in BOOLEAN : ChartArrive(key, ok))

-----------------------------------------------------------------------------
(* The AI variant: the mock-data hook, the selection and the analysis panel *)

AiInit ==
  /\ AiConstructed
  /\ Constructed
  /\ localStorage = NoItem
  /\ prices = <<>> /\ absent = FALSE /\ snapshot = <<>>
  /\ HookIdle

\* The effects of the first render: loadMockData up to its setTimeout. App's
\* effect finds cryptos empty and does nothing.
AiMount ==
  /\ ~aiMounted
  /\ aiMounted' = TRUE
  /\ hookLoading' = TRUE
  /\ hookError' = NoError
  /\ timer' = "pending"
  /\ UNCHANGED <<cryptos, aiSelected, analysis, panelLoading, panelError, requests>>
  /\ UNCHANGED <<techVars, appVars>>

\* The timeout of loadMockData fires: setCryptos(MOCK_DATA), setLoading(false).
\* The render that follows mounts the panel, whose effect clears analysis and
\* error, and App's effect selects cryptos[0] when nothing is selected, which
\* runs the panel's effect once more.
LoadMockData ==
  /\ timer = "pending"
  /\ timer' = "fired"
  /\ cryptos' = MOCK_DATA
  /\ hookLoading' = FALSE
  /\ aiSelected' = IF Len(MOCK_DATA) > 0 /\ aiSelected = NoCrypto
                   THEN MOCK_DATA[1] ELSE aiSelected
  /\ analysis' = NoAnalysis
  /\ panelError' = NoError
  /\ UNCHANGED <<aiMounted, hookError, panelLoading, requests>>
  /\ UNCHANGED <<techVars, appVars>>

\* onCryptoSelect of a card: setSelectedCrypto(crypto); the panel's effect on
\* [selectedCrypto] clears analysis and error. Requests in flight go on.
onCryptoSelect(crypto) ==
  /\ PanelShown
  /\ \E k \in 1..Len(cryptos) : cryptos[k] = crypto
  /\ crypto # aiSelected
  /\ aiSelected' = crypto
  /\ analysis' = NoAnalysis
  /\ panelError' = NoError
  /\ UNCHANGED <<aiMounted, timer, cryptos, hookLoading, hookError, panelLoading, requests>>
  /\ UNCHANGED <<techVars, appVars>>

\* handleAnalyze up to its await
handleAnalyze ==
  /\ PanelShown
  /\ aiSelected # NoCrypto
  /\ ~ButtonDisabled(panelLoading)
  /\ RequestCount < MaxInflight
  /\ panelLoading' = TRUE
  /\ panelError' = NoError
  /\ analysis' = NoAnalysis
  /\ requests' = [requests EXCEPT ![aiSelected] = @ + 1]
  /\ UNCHANGED <<aiMounted, timer, cryptos, hookLoading, hookError, aiSelected>>
  /\ UNCHANGED <<techVars, appVars>>

\* analyzeCryptoRiskReturn settles: handleAnalyze from its await on
AnalyzeArrive(crypto, response) ==
  /\ requests[crypto] > 0
  /\ requests' = [requests EXCEPT ![crypto] = @ - 1]
  /\ LET result == analyzeCryptoRiskReturn(crypto, response)
     IN IF result.ok
        THEN analysis' = result.value /\ UNCHANGED panelError
        ELSE panelError' = AnalyzeError /\ UNCHANGED analysis
  /\ panelLoading' = FALSE
  /\ UNCHANGED <<aiMounted, timer, cryptos, hookLoading, hookError, aiSelected>>
  /\ UNCHANGED <<techVars, appVars>>

AiNext ==
  \/ AiMount
  \/ LoadMockData
  \/ \E crypto \in MockAssets : onCryptoSelect(crypto)
  \/ handleAnalyze
  \/ \E crypto \in MockAssets, response \in Responses : AnalyzeArrive(crypto, response)

AiSpec == AiInit /\ [][AiNext]_vars

-----------------------------------------------------------------------------
(* The hooks as a state machine: an input is drawn and one hook runs on it,  *)
(* one loop iteration per step.                                              *)

TechInit ==
  /\ \/ prices \in PriceInputs /\ absent = FALSE /\ snapshot = <<>>
     \/ prices = <<>> /\ absent = TRUE /\ snapshot = <<>>
     \/ prices = <<>> /\ absent = FALSE /\ snapshot \in Snapshots
  /\ HookIdle
  /\ Constructed
  /\ localStorage = NoItem
  /\ AiConstructed

\* entering calculateSMA(data, period): const sma = []; let i = period - 1
CallSMA(per, caller) ==
  /\ pc' = "smaLoop"
  /\ ret' = caller
  /\ window' = per
  /\ i' = SmaStart(per)
  /\ sma' = <<>>

\* entering calculateRSI(data, period): rsi = [], gains = 0, losses = 0, i = 1
CallRSI(per, caller) ==
  /\ pc' = "rsiLoop"
  /\ ret' = caller
  /\ window' = per
  /\ i' = 1
  /\ gains' = 0
  /\ losses' = 0
  /\ rsi' = <<>>
  /\ emitted' = <<>>

\* calculateSMA on its own, on a series of at most MaxLen samples
CalcSMA(per) ==
  /\ pc = "input"
  /\ ~absent
  /\ Len(prices) <= MaxLen
  /\ CallSMA(per, "direct")
  /\ UNCHANGED <<appVars, aiVars>>
  /\ UNCHANGED <<prices, absent, snapshot, gains, losses, rsi, emitted, out>>

\* one iteration of calculateSMA's loop
SmaStep ==
  /\ pc = "smaLoop"
  /\ i < Len(prices)
  /\ sma' = Append(sma, SmaPoint(prices, ClosingPrices(prices), i, window))
  /\ i' = i + 1
  /\ UNCHANGED <<appVars, aiVars>>
  /\ UNCHANGED <<prices, absent, snapshot, pc, ret, window, gains, losses, rsi, emitted, out>>

\* return sma
SmaReturn ==
  /\ pc = "smaLoop"
  /\ ~(i < Len(prices))
  /\ pc' = "smaReturn"
  /\ UNCHANGED <<appVars, aiVars>>
  /\ UNCHANGED <<prices, absent, snapshot, ret, window, i, sma, gains, losses, rsi, emitted, out>>

\* calculateRSI on its own, on a series of at most MaxLen samples
CalcRSI(per) ==
  /\ pc = "input"
  /\ ~absent
  /\ Len(prices) <= MaxLen
  /\ CallRSI(per, "direct")
  /\ UNCHANGED <<appVars, aiVars>>
  /\ UNCHANGED <<prices, absent, snapshot, sma, out>>

\* one iteration of calculateRSI's loop
RsiStep ==
  /\ pc = "rsiLoop"
  /\ i < Len(prices)
  /\ LET data == ClosingPrices(prices)
         change == At(data, i) - At(data, i - 1)
         g1 == IF change > 0 THEN gains + change ELSE gains
         l1 == IF change > 0 THEN losses ELSE losses - change
     IN IF RsiEmits(i, window)
        THEN LET prevChange == PrevChange(data, i, window)
             IN /\ rsi' = Append(rsi, [x |-> PointTime(prices, i), y |-> RsiValue(g1, l1, window)])
                /\ emitted' = Append(emitted, [i |-> i, gains |-> g1, losses |-> l1])
                /\ gains' = IF prevChange > 0 THEN g1 - prevChange ELSE g1
                /\ losses' = IF prevChange > 0 THEN l1 ELSE l1 + prevChange
        ELSE /\ gains' = g1
             /\ losses' = l1
             /\ UNCHANGED <<rsi, emitted>>
  /\ i' = i + 1
  /\ UNCHANGED <<appVars, aiVars>>
  /\ UNCHANGED <<prices, absent, snapshot, pc, ret, window, sma, out>>

\* return rsi
RsiReturn ==
  /\ pc = "rsiLoop"
  /\ ~(i < Len(prices))
  /\ pc' = "rsiReturn"
  /\ UNCHANGED <<appVars, aiVars>>
  /\ UNCHANGED <<prices, absent, snapshot, ret, window, i, sma, gains, losses, rsi, emitted, out>>

\* useTechnicalAnalysis(prices), up to the call of calculateSMA(closingPrices, 20)
TechStart ==
  /\ pc = "input"
  /\ IF NoPrices(absent, prices)
     THEN /\ pc' = "tech"
          /\ out' = EmptyAnalysis
          /\ UNCHANGED <<ret, window, i, sma>>
     ELSE /\ out' = EmptyAnalysis
          /\ CallSMA(SmaShort, "sma20")
  /\ UNCHANGED <<appVars, aiVars>>
  /\ UNCHANGED <<prices, absent, snapshot, gains, losses, rsi, emitted>>

\* const sma20 = <returned>; then the call of calculateSMA(closingPrices, 50)
TechSma20 ==
  /\ pc = "smaReturn"
  /\ ret = "sma20"
  /\ out' = [out EXCEPT !.sma20 = sma]
  /\ CallSMA(SmaLong, "sma50")
  /\ UNCHANGED <<appVars, aiVars>>
  /\ UNCHANGED <<prices, absent, snapshot, gains, losses, rsi, emitted>>

\* const sma50 = <returned>; then the call of calculateRSI(closingPrices)
TechSma50 ==
  /\ pc = "smaReturn"
  /\ ret = "sma50"
  /\ out' = [out EXCEPT !.sma50 = sma]
  /\ CallRSI(RsiPeriod, "rsi")
  /\ UNCHANGED <<appVars, aiVars>>
  /\ UNCHANGED <<prices, absent, snapshot, sma>>

\* const rsi = <returned>; support and resistance; return
TechFinish ==
  /\ pc = "rsiReturn"
  /\ ret = "rsi"
  /\ LET recentPrices == RecentPrices(ClosingPrices(prices))
     IN out' = [out EXCEPT !.rsi = rsi,
                           !.support = MathMin(recentPrices, 1, Len(recentPrices)),
                           !.resistance = MathMax(recentPrices, 1, Len(recentPrices))]
  /\ pc' = "tech"
  /\ UNCHANGED <<appVars, aiVars>>
  /\ UNCHANGED <<prices, absent, snapshot, ret, window, i, sma, gains, losses, rsi, emitted>>

\* useRiskReturnAnalysis(marketData, 30)
RiskReturnAnalysis ==
  /\ pc = "input"
  /\ pc' = "risk"
  /\ out' = useRiskReturnAnalysis(snapshot, RiskDays)
  /\ UNCHANGED <<appVars, aiVars>>
  /\ UNCHANGED <<prices, absent, snapshot, ret, window, i, sma, gains, losses, rsi, emitted>>

TechNext ==
  \/ \E per \in Periods : CalcSMA(per)
  \/ \E per \in Periods : CalcRSI(per)
  \/ SmaStep
  \/ SmaReturn
  \/ RsiStep
  \/ RsiReturn
  \/ TechStart
  \/ TechSma20
  \/ TechSma50
  \/ TechFinish
  \/ RiskReturnAnalysis

TechSpec == TechInit /\ [][TechNext]_vars

-----------------------------------------------------------------------------
(* Reference computations the claims compare the code against *)

Max0(n) == IF n > 0 THEN n ELSE 0

\* the sum of data[lo..hi] (1-based, inclusive)
RECURSIVE Total(_, _, _)
Total(data, lo, hi) ==
  IF lo > hi THEN 0
  ELSE IF lo = hi THEN data[lo]
  ELSE Total(data, lo, (lo + hi) \div 2) + Total(data, (lo + hi) \div 2 + 1, hi)

\* the delta data[j] - data[j-1] at 0-based index j
Delta(data, j) == data[j + 1] - data[j]

\* the sum of the positive deltas at the 0-based indices lo..hi
RECURSIVE GainSum(_, _, _)
GainSum(data, lo, hi) ==
  IF lo > hi THEN 0
  ELSE IF lo = hi THEN (IF Delta(data, lo) > 0 THEN Delta(data, lo) ELSE 0)
  ELSE GainSum(data, lo, (lo + hi) \div 2) + GainSum(data, (lo + hi) \div 2 + 1, hi)

\* the sum of the magnitudes of the non-positive deltas at the 0-based indices lo..hi
RECURSIVE LossSum(_, _, _)
LossSum(data, lo, hi) ==
  IF lo > hi THEN 0
  ELSE IF lo = hi THEN (IF Delta(data, lo) > 0 THEN 0 ELSE -Delta(data, lo))
  ELSE LossSum(data, lo, (lo + hi) \div 2) + LossSum(data, (lo + hi) \div 2 + 1, hi)

\* the 1-based indices of the last min(N, 90) samples
RecentIndices == (Max0(Len(prices) - RecentWindow) + 1)..Len(prices)

StrictlyIncreasing(data) == \A k \in 1..(Len(data) - 1) : data[k] < data[k + 1]

-----------------------------------------------------------------------------
(* Claims about the indicator hooks, checked under TechSpec *)

\* C1: calculateSMA on N closing values with window W returns exactly
\* max(0, N - W + 1) points, the k-th (0-based) being the arithmetic mean of the
\* W inputs at indices k..k+W-1; for W > N the result is empty.
C1_SmaLengthAndMean ==
  pc = "smaReturn" =>
    LET data == ClosingPrices(prices)
    IN /\ Len(sma) = Max0(Len(data) - window + 1)
       /\ \A k \in 1..Len(sma) :
            /\ IsFinite(sma[k].y)
            /\ sma[k].y[1] * window = sma[k].y[2] * Total(data, k, k + window - 1)

\* C1 witness: the 50-sample average returned several points, not all equal.
C1_Witness ==
  /\ pc = "smaReturn"
  /\ window = SmaLong
  /\ Len(sma) > 1
  /\ sma[1].y # sma[Len(sma)].y

C3_IncreasingGivesHundred ==
  (pc = "rsiReturn" /\ StrictlyIncreasing(ClosingPrices(prices))
     /\ Len(prices) >= window + 1) =>
    \A k \in 1..Len(rsi) : rsi[k].y = Num(100)

\* C4: calculateRSI emits its first point at input index W and one point for each
\* later index: max(0, N - W) points, none for a series shorter than W+1.
C4_RsiLength ==
  pc = "rsiReturn" =>
    /\ Len(rsi) = Max0(Len(prices) - window)
    /\ \A k \in 1..Len(rsi) : emitted[k].i = window + k - 1

\* C4 witness: the default window on a series long enough for several points.
C4_Witness ==
  /\ pc = "rsiReturn"
  /\ window = RsiPeriod
  /\ Len(rsi) >= 2
  /\ emitted[1].i = RsiPeriod

C6_SupportResistance ==
  (pc = "tech" /\ Len(prices) > 0) =>
    /\ \E k \in RecentIndices : out.support = Num(prices[k][2])
    /\ \A k \in RecentIndices : out.support[1] <= prices[k][2]
    /\ \E k \in RecentIndices : out.resistance = Num(prices[k][2])
    /\ \A k \in RecentIndices : out.resistance[1] >= prices[k][2]
    /\ (ClosingPrices(prices) = ExampleSeries =>
          out.support = Num(1) /\ out.resistance = Num(9))

\* C6 witness: a series longer than 90 whose oldest sample lies below the support.
C6_Witness ==
  /\ pc = "tech"
  /\ Len(prices) > RecentWindow
  /\ prices[1][2] < out.support[1]

\* C7: with an empty or absent price series the technical-analysis hook returns
\* empty sma20, sma50 and rsi and null support and resistance; with an empty
\* asset list the risk/return hook returns an empty list.
C7_EmptyInput ==
  /\ (pc = "tech" /\ (absent \/ Len(prices) = 0)) =>
       /\ out.sma20 = <<>>
       /\ out.sma50 = <<>>
       /\ out.rsi = <<>>
       /\ out.support = Null
       /\ out.resistance = Null
  /\ (pc = "risk" /\ Len(snapshot) = 0) => out = <<>>

\* C7 witness: the hook has returned for an absent price argument.
C7_Witness == pc = "tech" /\ absent

\* C8: every SMA and RSI point carries the timestamp of the input sample at the
\* last index of its window, so output timestamps are input timestamps in input
\* order.
C8_PointTimestamps ==
  /\ pc = "smaReturn" =>
       \A k \in 1..Len(sma) : sma[k].x = prices[k + window - 1][1]
  /\ pc = "rsiReturn" =>
       \A k \in 1..Len(rsi) : rsi[k].x = prices[k + window][1]

\* C8 witness: the 20-sample average returned at least two points.
C8_Witness ==
  /\ pc = "smaReturn"
  /\ window = SmaShort
  /\ Len(sma) >= 2

\* the 24-hour change of an asset as the snapshot supplies it (0 when absent)
Change24h(coin) ==
  IF "price_change_percentage_24h" \in DOMAIN coin
  THEN coin["price_change_percentage_24h"] ELSE 0

\* C9: for every asset, with c its 24-hour percentage change in the snapshot,
\* dailyReturn = c/100, riskVolatility = |dailyReturn| * sqrt(365) and
\* annualizedReturn = (1 + dailyReturn)^365 - 1; riskVolatility is positive for
\* c = 10.
C9_RiskReturnFormula ==
  pc = "risk" =>
    \A k \in 1..Len(snapshot) :
      LET dailyReturn == Norm(Change24h(snapshot[k]), 100)
      IN /\ out[k].x.coef = NumAbs(dailyReturn)
         /\ out[k].y.base = NumAdd(Num(1), dailyReturn)
         /\ (Change24h(snapshot[k]) = 10 => out[k].x.coef[1] > 0)

\* every delta of the series is zero
Flat(data) == \A k \in 1..(Len(data) - 1) : data[k] = data[k + 1]

\* C15: for a perfectly flat series of length >= W+1 calculateRSI emits 0 at
\* every emission point, not 100: gains and losses are both zero, the zero-loss
\* divisor is replaced by 1, RS = 0 and RSI = 100 - 100/(1+0) = 0.
C15_FlatGivesZero ==
  (pc = "rsiReturn" /\ Flat(ClosingPrices(prices)) /\ Len(prices) >= window + 1) =>
    /\ Len(rsi) >= 1
    /\ \A k \in 1..Len(rsi) :
         /\ emitted[k].gains = 0
         /\ emitted[k].losses = 0
         /\ LossDivisor(NumDiv(Num(emitted[k].losses), Num(window))) = Num(1)
         /\ rsi[k].y = Num(0)

\* C15 witness: calculateRSI has returned several points for a flat series.
C15_Witness ==
  /\ pc = "rsiReturn"
  /\ Flat(ClosingPrices(prices))
  /\ Len(prices) >= window + 1
  /\ Len(rsi) >= 2
  /\ rsi[Len(rsi)].y = Num(0)

-----------------------------------------------------------------------------
(* Claims about the App component, checked under AppSpec *)

\* the selection the dashboard currently shows
CurrentKey == [crypto |-> selectedCrypto, period |-> period]

\* C10: chart fetches are never cancelled or tagged. A change of the selected
\* asset or period removes no request from those in flight, and the data of the
\* last response that succeeded is what historicalData holds, whatever the
\* selection is by then; so a superseded response overwrites newer data.
C10_NoCancelNoTag ==
  /\ [](historicalData = lastChartOk)
  /\ [][(selectedCrypto' # selectedCrypto \/ period' # period) =>
          /\ \A k \in ChartKeys : chartInflight'[k] >= chartInflight[k]
          /\ chartInflight'[CurrentKey'] = chartInflight[CurrentKey'] + 1]_vars

\* C10 witness: no fetch is in flight, none has failed since the last one was
\* issued, and historicalData belongs to another selection than the current one.
C10_Witness ==
  /\ mounted
  /\ InflightCount = 0
  /\ error = NoError
  /\ historicalData # NoData
  /\ historicalData # CurrentKey

\* the list a reader of the store finds under 'cryptoFavorites'
StoredFavorites == IF localStorage = NoItem THEN <<>> ELSE JsonParse(localStorage)

\* C11: the favorites are read from the store at startup and written on every
\* add or remove: once loaded, and after any sequence of toggles and removals,
\* the list stored under 'cryptoFavorites' equals the in-memory favorites,
\* element for element and in the same order; only the startup load reads the
\* store, and every later change of the list is written in the same step.
C11_StoredEqualsFavorites ==
  /\ [](mounted => StoredFavorites = favorites)
  /\ [][(mounted /\ favorites' # favorites) => localStorage' = Stringify(favorites')]_vars
  /\ [][localStorage' # localStorage => favoritesSetBy' \in {"handleToggleFavorite", "onRemove"}]_vars

\* C11 witness: a removal has left a favorite other than the initial asset
\* in memory and in the store.
C11_Witness ==
  /\ favoritesSetBy = "onRemove"
  /\ Len(favorites) >= 1
  /\ favorites[1] # "bitcoin"
  /\ StoredFavorites = favorites

\* the identifiers in a list
Members(list) == {list[k] : k \in 1..Len(list)}

\* the list with the element at position p taken out
DropAt(list, p) == [k \in 1..(Len(list) - 1) |-> IF k < p THEN list[k] ELSE list[k + 1]]

SelectionChange == selectedCrypto' # selectedCrypto \/ period' # period

\* C13: a failed request is surfaced as a message and never retried by the
\* program. The failure of the initial fetch or of a chart fetch sets error to
\* its message; requests are issued by the mount effects and by selection
\* changes only; a message stays (or gives way to a later failure's) until the
\* selection changes; and when it stays for good (no further selection change) the requests in flight settle
\* and the dashboard shows the message from then on: error non-null, loading
\* false.
C13_FailureShownNoRetry ==
  /\ [][(\E key \in ChartKeys : ChartArrive(key, FALSE)) =>
          error' = "chart request failed"]_vars
  /\ [][((coinsFetch = "pending" /\ coinsFetch' = "failed" /\ marketFetch # "failed")
          \/ (marketFetch = "pending" /\ marketFetch' = "failed" /\ coinsFetch # "failed")) =>
          error' = "catalog request failed"]_vars
  /\ [][((\E key \in ChartKeys : chartInflight'[key] > chartInflight[key])
          \/ (coinsFetch' = "pending" /\ coinsFetch # "pending")
          \/ (marketFetch' = "pending" /\ marketFetch # "pending")) =>
          (~mounted \/ SelectionChange)]_vars
  /\ [][(error # NoError /\ ~SelectionChange) => error' # NoError]_vars
  /\ (<>[](error # NoError) => <>[](error # NoError /\ ~loading))

\* C13 witness: the initial fetch has failed, the chart request has succeeded
\* since, nothing is in flight, and the message is what the chart card shows.
C13_Witness ==
  /\ error = CatalogError
  /\ ~loading
  /\ InflightCount = 0
  /\ coinsFetch # "pending" /\ marketFetch # "pending"
  /\ historicalData # NoData

\* C16: loading is true whenever a chart fetch for the current selection is in
\* flight, for every interleaving of selection changes and response arrivals.
C16_LoadingWhileCurrentInFlight == chartInflight[CurrentKey] > 0 => loading

-----------------------------------------------------------------------------
(* Claims about the AI variant, checked under AiSpec *)

\* an analysis request settles with a failure
AnalyzeFails ==
  \E crypto \in MockAssets, response \in Responses :
    response.kind # "json" /\ AnalyzeArrive(crypto, response)

\* C14: a failure of the generative-text request changes the panel's own state
\* only: its error becomes the localized message, its analysis stays null, its
\* loading returns to false; the asset list, the selected asset and the data
\* hook's loading and error are left unchanged.
C14_FailureStaysInPanel ==
  [][AnalyzeFails =>
       /\ panelError' = "Falha ao gerar analise. Tente novamente."
       /\ analysis = NoAnalysis /\ analysis' = NoAnalysis
       /\ panelLoading /\ ~panelLoading'
       /\ UNCHANGED <<cryptos, aiSelected, hookLoading, hookError>>]_vars

\* C14 witness: a request has failed, for an asset other than the one selected
\* on load; the panel shows the message and the dashboard is still rendered.
C14_Witness ==
  /\ panelError = AnalyzeError
  /\ analysis = NoAnalysis
  /\ ~panelLoading
  /\ aiSelected # MOCK_DATA[1]
  /\ PanelShown

\* C17: whenever the panel holds an analysis, it is the result of a request
\* issued for the currently selected asset, for every interleaving of analyze
\* clicks, selection changes and response arrivals.
C17_AnalysisOfSelected == analysis # NoAnalysis => analysis.asset = aiSelected

\* C18: analysis and error are never both non-null. The analyze action cannot
\* start while loading is true, so at most one request is in flight; each
\* request start and each selection change clears both fields; a completion
\* sets exactly one of them.
C18_AnalysisXorError ==
  /\ [](~(analysis # NoAnalysis /\ panelError # NoError))
  /\ [](RequestCount <= 1)
  /\ [][handleAnalyze =>
          ~panelLoading /\ analysis' = NoAnalysis /\ panelError' = NoError]_vars
  /\ [][aiSelected' # aiSelected => analysis' = NoAnalysis /\ panelError' = NoError]_vars
  /\ [][(\E crypto \in MockAssets, response \in Responses : AnalyzeArrive(crypto, response)) =>
          (analysis' # NoAnalysis) # (panelError' # NoError)]_vars

\* C18 witness: after a failed request a second one has succeeded; the panel
\* holds its analysis and no error.
C18_Witness ==
  /\ analysis # NoAnalysis
  /\ analysis.nivelDeRisco = "Alto"
  /\ panelError = NoError
  /\ ~panelLoading
  /\ RequestCount = 0

-----------------------------------------------------------------------------
(* Recovery by retry, in both variants *)

\* a user action of the live-data dashboard that issues requests
UserReissues ==
  \/ \E crypto \in Catalog : SelectCrypto(crypto)
  \/ \E days \in PeriodOptions : SelectPeriod(days)

\* C12: every error is recoverable by a user-initiated retry. After a failure
\* of the catalog/market-snapshot fetch some selection of an asset or period
\* issues the catalog and market requests again; after a failure of a chart
\* fetch some selection issues a chart request and clears the error; after a
\* failure of an analysis request the analyze button issues one and clears the
\* error.
C12_RetryRecovers ==
  /\ (coinsFetch = "failed" \/ marketFetch = "failed") =>
       ENABLED (UserReissues /\ coinsFetch' = "pending" /\ marketFetch' = "pending")
  /\ error = ChartError =>
       ENABLED (UserReissues /\ InflightCount' = InflightCount + 1 /\ error' = NoError)
  /\ panelError = AnalyzeError =>
       ENABLED (handleAnalyze /\ RequestCount' = RequestCount + 1 /\ panelError' = NoError)

====
